---- MODULE Spec2Model ----
(***************************************************************************)
(* Model of FileTools.commit_all_changes (src/src/file_tools.py): the scan *)
(* for dirty repositories, the interactive selection dialog and the        *)
(* stage/commit loop.  Text is modelled as sequences of one-character      *)
(* strings so that strip(), lower(), split() and int() are computed.       *)
(***************************************************************************)
EXTENDS Integers, Sequences, FiniteSets, TLC

\* ------------------------------------------------------------------ bounds
MaxRepos == 3
MaxToks == 2
MaxInvalid == 2
MaxNodes == 3
MaxRecords == 2
MaxShown == 2

\* ------------------------------------------------------- text primitives
IsSpace(c) == c \in {" ", "\n", "\t"}

SetMin(S) == CHOOSE x \in S : \A y \in S : x <= y
SetMax(S) == CHOOSE x \in S : \A y \in S : x >= y

\* str.strip(): drop leading and trailing whitespace
Strip_Identity(s) == s
Strip(s) ==
    LET keep == {i \in 1..Len(s) : ~IsSpace(s[i])}
    IN  IF keep = {} THEN <<>> ELSE SubSeq(s, SetMin(keep), SetMax(keep))

LowerChar(c) ==
    CASE c = "A" -> "a"
      [] c = "L" -> "l"
      [] c = "N" -> "n"
      [] c = "Y" -> "y"
      [] OTHER -> c

\* str.lower()
Lower(s) == [i \in 1..Len(s) |-> LowerChar(s[i])]

RECURSIVE SplitFrom(_, _, _, _)
SplitFrom(s, i, cur, acc) ==
    IF i > Len(s)
    THEN IF cur = <<>> THEN acc ELSE Append(acc, cur)
    ELSE IF IsSpace(s[i])
         THEN SplitFrom(s, i + 1, <<>>, IF cur = <<>> THEN acc ELSE Append(acc, cur))
         ELSE SplitFrom(s, i + 1, Append(cur, s[i]), acc)

\* str.split() with no argument: the maximal runs of non-whitespace
Split(s) == SplitFrom(s, 1, <<>>, <<>>)

Digits == {"0", "1", "2", "3", "4", "5", "6", "7", "8", "9"}

DigitVal(c) ==
    CASE c = "0" -> 0 [] c = "1" -> 1 [] c = "2" -> 2 [] c = "3" -> 3
      [] c = "4" -> 4 [] c = "5" -> 5 [] c = "6" -> 6 [] c = "7" -> 7
      [] c = "8" -> 8 [] c = "9" -> 9 [] OTHER -> 0

RECURSIVE DecVal(_)
DecVal(ds) ==
    IF ds = <<>> THEN 0
    ELSE 10 * DecVal(SubSeq(ds, 1, Len(ds) - 1)) + DigitVal(ds[Len(ds)])

HasSign(w) == Len(w) > 0 /\ w[1] \in {"-", "+"}
Magnitude(w) == IF HasSign(w) THEN Tail(w) ELSE w

\* int(x) raises ValueError unless x is an optional sign and decimal digits
IsInt_FirstChar(w) == Magnitude(w) # <<>> /\ Magnitude(w)[1] \in Digits
IsInt(w) ==
    /\ Magnitude(w) # <<>>
    /\ \A i \in 1..Len(Magnitude(w)) : Magnitude(w)[i] \in Digits

\* int(x)
IntOf(w) ==
    IF HasSign(w) /\ w[1] = "-" THEN 0 - DecVal(Magnitude(w)) ELSE DecVal(Magnitude(w))


\* ------------------------------------------------------------ environment
\* Repositories are named by their position in the order root.glob('**/.git')
\* yields them; a dict keeps its keys in insertion order.
Repos == 1..MaxRepos

RECURSIVE SortedSeq(_)
SortedSeq(S) == IF S = {} THEN <<>> ELSE <<SetMin(S)>> \o SortedSeq(S \ {SetMin(S)})

\* outputs of `git status --porcelain`
StatusTexts == { <<>>, <<"\n">>, <<"M", " ", "a", "\n">> }

\* subprocess.run without check: any exit status is returned to the caller;
\* a failing git writes its message to stderr and nothing to stdout.  A spawn
\* failure (missing binary, unusable cwd) raises OSError.
StatusResults ==
    {[kind |-> "ok", stdout |-> t] : t \in StatusTexts}
        \cup {[kind |-> "nonzero", stdout |-> <<>>], [kind |-> "oserror", stdout |-> <<>>]}

\* subprocess.run(..., check=True): CalledProcessError on a non-zero exit,
\* OSError on a spawn failure.
ToolResults == {"ok", "nonzero", "oserror"}

\* what the operator may type at the prompt, word by word
Tokens ==
    { <<"1">>, <<"2">>, <<"3">>, <<"5">>, <<"0">>, <<"-", "1">>,
      <<"a", "l", "l">>, <<"A", "L", "L">>, <<"n", "o", "n", "e">>, <<"1", "x">> }

Lines == UNION {[1..n -> Tokens] : n \in 0..MaxToks}

RECURSIVE Join(_)
Join(toks) ==
    IF toks = <<>> THEN <<>>
    ELSE IF Len(toks) = 1 THEN toks[1]
    ELSE toks[1] \o <<" ">> \o Join(Tail(toks))

\* the line as read by input(): the words, optionally surrounded by blanks
RawLine(toks, pad) ==
    IF pad THEN <<" ">> \o Join(toks) \o <<" ">> ELSE Join(toks)

\* what the operator may answer to "Proceed with this selection? (y/n)"
Answers == { <<"y">>, <<"Y">>, <<"n">>, <<>>, <<"y", " ">>, <<"y", "e", "s">> }

\* ------------------------------------------------------------------ state
VARIABLES
    pc,                 \* position in commit_all_changes
    interactive,        \* the argument of commit_all_changes
    root_exists,        \* whether self.current_dir is an existing, readable directory
    git_dirs, gi,       \* find_uncommitted_changes: glob result and loop position
    queried,            \* the status query results obtained so far, in order
    scanlog,            \* lines written by the logger during the scan
    repos_with_changes, \* the dict, as the sequence of its items
    repos_list,         \* _select_repos locals
    selected_repos,
    ignored_repos,
    repos_to_commit,    \* commit_all_changes locals
    commit_msg,
    k,                  \* position of the commit loop (0: not started)
    calls,              \* git add / git commit invocations issued so far
    outlog,             \* per-repository result lines written by the logger
    lastmsg,            \* last dialog message written by the logger
    invalids,           \* consecutive rejected lines, counted up to MaxInvalid
    typed,              \* the words of the last line that parsed as integers
    entered,            \* what kind of line the operator typed last
    answered,           \* what the operator answered at the last confirmation
    declined,           \* exclusion set of the last declined candidate
    tree,               \* repository locator: the directory tree below the root
    glob_stack,         \* directories root.glob('**/.git') has still to visit
    glob_out,           \* repo_path of every match of the glob, in order
    walk_stack,         \* directories os.walk has still to visit
    walk_out,           \* roots for which the walk found ".git" in dirs
    texts,              \* Present step: the status texts of repos_list, in order
    pidx,               \* Present step: idx of enumerate(repos_list, 1)
    previews,           \* Present step: the lines shown so far
    args,               \* main: the parsed command line
    mpc,                \* main: position
    step,               \* main: next `if args.<flag>` statement
    helped,             \* main: parser.print_help() was called
    ran,                \* main: the FileTools operations called so far
    dry_run,            \* find_ignored_dirs: the argument
    itree,              \* find_ignored_dirs: the directory tree at the call
    fs,                 \* find_ignored_dirs: the entries of itree that still exist
    found_dirs,         \* find_ignored_dirs: the list built by lines 126-127
    ipc,                \* find_ignored_dirs: position
    attempts            \* find_ignored_dirs: the shutil.rmtree calls made so far

vars == <<pc, interactive, root_exists, git_dirs, gi, queried, scanlog, repos_with_changes, repos_list,
          selected_repos, ignored_repos, repos_to_commit, commit_msg, k, calls, outlog,
          lastmsg, invalids, typed, entered, answered, declined,
          tree, glob_stack, glob_out, walk_stack, walk_out,
          texts, pidx, previews, args, mpc, step, helped, ran,
          dry_run, itree, fs, found_dirs, ipc, attempts>>

dialog == <<repos_list, selected_repos, ignored_repos, lastmsg, invalids,
            typed, entered, answered, declined>>
executor == <<repos_to_commit, commit_msg, k, calls, outlog>>
scanner == <<git_dirs, gi, queried, scanlog, repos_with_changes>>
locator == <<tree, glob_stack, glob_out, walk_stack, walk_out>>
present == <<texts, pidx, previews>>
cli == <<args, mpc, step, helped, ran>>
cleaner == <<dry_run, itree, fs, found_dirs, ipc, attempts>>

\* the parts of the program that a specification does not run
LocatorIdle ==
    /\ tree = <<>>
    /\ glob_stack = <<>>
    /\ glob_out = <<>>
    /\ walk_stack = <<>>
    /\ walk_out = <<>>

PresentIdle ==
    /\ texts = <<>>
    /\ pidx = 1
    /\ previews = <<>>

CleanerIdle ==
    /\ dry_run = TRUE
    /\ itree = <<>>
    /\ fs = {}
    /\ found_dirs = <<>>
    /\ ipc = "idle"
    /\ attempts = <<>>

MainIdle ==
    /\ args = <<>>
    /\ mpc = "idle"
    /\ step = 0
    /\ helped = FALSE
    /\ ran = <<>>

\* line 154: root.glob('**/.git'); on a root that does not exist or cannot be
\* read, Path.glob yields nothing and raises nothing
GlobResults(exists) ==
    IF exists THEN {SortedSeq(S) : S \in SUBSET Repos} ELSE {<<>>}

Keys(d) == [i \in 1..Len(d) |-> d[i].repo]

Init ==
    /\ pc = "scan"
    /\ interactive \in BOOLEAN
    /\ root_exists \in BOOLEAN
    /\ git_dirs \in GlobResults(root_exists)
    /\ gi = 1
    /\ queried = <<>>
    /\ scanlog = <<>>
    /\ repos_with_changes = <<>>
    /\ repos_list = <<>>
    /\ selected_repos = <<>>
    /\ ignored_repos = {}
    /\ repos_to_commit = <<>>
    /\ commit_msg = <<>>
    /\ k = 0
    /\ calls = <<>>
    /\ outlog = <<>>
    /\ lastmsg = "none"
    /\ invalids = 0
    /\ typed = <<>>
    /\ entered = "nothing"
    /\ answered = "nothing"
    /\ declined = {}
    /\ LocatorIdle
    /\ PresentIdle
    /\ MainIdle
    /\ CleanerIdle

CommitAllIdle ==
    /\ pc = "idle"
    /\ interactive = FALSE
    /\ root_exists = TRUE
    /\ git_dirs = <<>>
    /\ gi = 1
    /\ queried = <<>>
    /\ scanlog = <<>>
    /\ repos_with_changes = <<>>
    /\ repos_list = <<>>
    /\ selected_repos = <<>>
    /\ ignored_repos = {}
    /\ repos_to_commit = <<>>
    /\ commit_msg = <<>>
    /\ k = 0
    /\ calls = <<>>
    /\ outlog = <<>>
    /\ lastmsg = "none"
    /\ invalids = 0
    /\ typed = <<>>
    /\ entered = "nothing"
    /\ answered = "nothing"
    /\ declined = {}

commit_all == <<pc, interactive, root_exists, scanner, dialog, executor>>

\* ---------------------------------------------- find_uncommitted_changes
\* one iteration of `for git_dir in root.glob('**/.git')`
Classify ==
    /\ pc = "scan"
    /\ gi <= Len(git_dirs)
    /\ \E result \in StatusResults :
         /\ queried' = Append(queried, result)
         /\ IF result.kind = "oserror"
            THEN \* not a SubprocessError: the except clause (line 168) does not
                 \* apply and the exception leaves find_uncommitted_changes
                 /\ pc' = "raised"
                 /\ UNCHANGED <<gi, repos_with_changes, scanlog>>
            ELSE \* the exit status is not looked at (no check=True, no
                 \* returncode test): only stdout decides
                 /\ IF Strip(result.stdout) # <<>>
                    THEN /\ repos_with_changes' =
                               Append(repos_with_changes,
                                      [repo |-> git_dirs[gi], out |-> result.stdout])
                         /\ scanlog' = Append(scanlog,
                                      [repo |-> git_dirs[gi], line |-> "changes"])
                    ELSE UNCHANGED <<repos_with_changes, scanlog>>
                 /\ gi' = gi + 1
                 /\ pc' = pc
    /\ UNCHANGED <<locator, present, cli, cleaner, interactive, root_exists, git_dirs, dialog, executor>>

\* line 233: list(repos_with_changes.keys())
NonInteractiveRepos_AllLocated == git_dirs
NonInteractiveRepos == Keys(repos_with_changes)

\* find_uncommitted_changes returns; commit_all_changes goes on to the
\* selection (lines 228-234) and _select_repos presents the list.  The early
\* return of _select_repos on an empty dict (line 178) is never taken from
\* here: commit_all_changes has already returned at line 229.
ScanReturn ==
    /\ pc = "scan"
    /\ gi > Len(git_dirs)
    /\ git_dirs' = <<>>
    /\ gi' = 0
    /\ queried' = <<>>
    /\ IF repos_with_changes = <<>>
       THEN /\ pc' = "done"
            /\ lastmsg' = "clean"
            /\ UNCHANGED <<repos_list, repos_to_commit>>
       ELSE IF interactive
            THEN /\ repos_list' = Keys(repos_with_changes)
                 /\ lastmsg' = "presented"
                 /\ pc' = "prompt"
                 /\ UNCHANGED repos_to_commit
            ELSE /\ repos_to_commit' = NonInteractiveRepos
                 /\ pc' = "selected"
                 /\ UNCHANGED <<repos_list, lastmsg>>
    /\ UNCHANGED <<locator, present, cli, cleaner, interactive, root_exists, repos_with_changes, scanlog, selected_repos,
                   ignored_repos, commit_msg, k, calls, outlog, invalids, typed,
                   entered, answered, declined>>


\* ------------------------------------------------------------ _select_repos
KwAll == <<"a", "l", "l">>
KwNone == <<"n", "o", "n", "e">>

\* line 194: input(...).strip().lower()
Choice(raw) == Lower(Strip(raw))

\* lines 196-199: the value returned without confirmation
KeywordReturn_Swapped(choice, rl) == IF choice = KwAll THEN rl ELSE <<>>
KeywordReturn(choice, rl) == IF choice = KwAll THEN <<>> ELSE rl

\* lines 196 and 198: choice == 'all', choice == 'none' or not choice
IsKeyword_NoEmpty(choice) == choice = KwAll \/ choice = KwNone
IsKeyword(choice) == choice = KwAll \/ choice = KwNone \/ choice = <<>>

\* line 202: the comprehension raises ValueError at the first word int() rejects
ParsesAsInts(words) == \A i \in 1..Len(words) : IsInt(words[i])
SelectedIndices(words) == [i \in 1..Len(words) |-> IntOf(words[i]) - 1]

\* line 203: {repos_list[i] for i in selected_indices if 0 <= i < len(repos_list)}
IgnoredRepos_NoLowerBound(rl, idx) ==
    {rl[IF idx[j] >= 0 THEN idx[j] + 1 ELSE Len(rl) + idx[j] + 1] :
        j \in {j \in 1..Len(idx) : idx[j] < Len(rl) /\ 0 - idx[j] <= Len(rl)}}
IgnoredRepos(rl, idx) ==
    {rl[idx[j] + 1] : j \in {j \in 1..Len(idx) : 0 <= idx[j] /\ idx[j] < Len(rl)}}

\* line 204: [repo for repo in repos_list if repo not in ignored_repos]
SelectedRepos_Reversed(rl, ign) ==
    LET keep == {j \in 1..Len(rl) : rl[j] \notin ign}
    IN  [n \in 1..Cardinality(keep) |->
            rl[CHOOSE j \in keep : Cardinality({i \in keep : i > j}) = n - 1]]
SelectedRepos(rl, ign) ==
    LET keep == {j \in 1..Len(rl) : rl[j] \notin ign}
    IN  [n \in 1..Cardinality(keep) |->
            rl[CHOOSE j \in keep : Cardinality({i \in keep : i < j}) = n - 1]]

\* line 206: if selected_repos or not ignored_repos
ShowsSelection_And(sel, ign) == sel # <<>> /\ ign = {}
ShowsSelection_Always(sel, ign) == sel = sel /\ ign = ign
ShowsSelection(sel, ign) == sel # <<>> \/ ign = {}

\* line 216-217: input(...).lower() == 'y'
IsYes_Prefix(ans) == Lower(ans) # <<>> /\ Lower(ans)[1] = "y"
IsYes(ans) == Lower(ans) = <<"y">>

\* The operator's keystrokes, classified by what was typed rather than by what
\* the parser makes of it; blanks around the words do not change the kind.
IntTokens == { <<"1">>, <<"2">>, <<"3">>, <<"5">>, <<"0">>, <<"-", "1">> }

LineKind(toks, pad) ==
    IF toks = <<>> THEN (IF pad THEN "blank" ELSE "empty")
    ELSE IF \A i \in 1..Len(toks) : toks[i] \in IntTokens THEN "ints"
    ELSE IF toks = <<KwAll>> THEN "all"
    ELSE IF toks = <<KwNone>> THEN "none"
    ELSE IF toks = << <<"A", "L", "L">> >> THEN "uppercase_all"
    ELSE "malformed"

AnswerKind(ans) ==
    IF ans = <<"y">> THEN "y" ELSE IF ans = <<"Y">> THEN "Y" ELSE "other"

\* Every line the operator may type, with what lines 194-202 make of it.
Inputs ==
    {[toks |-> t, kind |-> LineKind(t, p), choice |-> Choice(RawLine(t, p)),
      ok |-> ParsesAsInts(Split(Choice(RawLine(t, p))))] : t \in Lines, p \in BOOLEAN}

Bump(n) == IF n < MaxInvalid THEN n + 1 ELSE n

\* one iteration of `while True` up to the next input() call
Prompt ==
    /\ pc = "prompt"
    /\ \E in \in Inputs :
         LET ign == IgnoredRepos(repos_list, SelectedIndices(Split(in.choice)))
             sel == SelectedRepos(repos_list, ign)
         IN  /\ entered' = in.kind
             /\ answered' = "nothing"
             /\ IF IsKeyword(in.choice)
                THEN \* return [] or return repos_list
                     /\ repos_to_commit' = KeywordReturn(in.choice, repos_list)
                     /\ pc' = "selected"
                     /\ repos_list' = <<>>
                     /\ selected_repos' = <<>>
                     /\ ignored_repos' = {}
                     /\ typed' = <<>>
                     /\ invalids' = 0
                     /\ UNCHANGED lastmsg
                ELSE IF ~in.ok
                THEN \* except (ValueError, IndexError)
                     /\ lastmsg' = "invalid"
                     /\ pc' = "prompt"
                     /\ typed' = <<>>
                     /\ invalids' = Bump(invalids)
                     /\ UNCHANGED <<repos_list, selected_repos, ignored_repos,
                                    repos_to_commit>>
                ELSE /\ ignored_repos' = ign
                     /\ selected_repos' = sel
                     /\ invalids' = 0
                     /\ typed' = in.toks
                     /\ IF ShowsSelection(sel, ign)
                        THEN lastmsg' = "confirming" /\ pc' = "confirm"
                        ELSE lastmsg' = lastmsg /\ pc' = "prompt"
                     /\ UNCHANGED <<repos_list, repos_to_commit>>
    /\ UNCHANGED <<locator, present, cli, cleaner, interactive, root_exists, scanner, commit_msg, k, calls, outlog, declined>>

\* the answer to "Proceed with this selection? (y/n)"
Confirm ==
    /\ pc = "confirm"
    /\ \E ans \in Answers :
         /\ answered' = AnswerKind(ans)
         /\ IF IsYes(ans)
            THEN \* return selected_repos
                 /\ repos_to_commit' = selected_repos
                 /\ pc' = "selected"
                 /\ repos_list' = <<>>
                 /\ selected_repos' = <<>>
                 /\ ignored_repos' = {}
                 /\ UNCHANGED <<lastmsg, declined, typed>>
            ELSE /\ lastmsg' = "retry"
                 /\ typed' = <<>>
                 /\ pc' = "prompt"
                 /\ declined' = ignored_repos
                 /\ UNCHANGED <<repos_list, selected_repos, ignored_repos,
                                repos_to_commit>>
    /\ UNCHANGED <<locator, present, cli, cleaner, interactive, root_exists, scanner, commit_msg, k, calls, outlog, invalids, entered>>

\* ------------------------------------------------------- commit_all_changes
\* local dates datetime.now() may return
Dates ==
    { [year |-> 2025, month |-> 3, day |-> 7],
      [year |-> 2025, month |-> 12, day |-> 31],
      [year |-> 2026, month |-> 11, day |-> 1] }

DigitChar(n) ==
    CASE n = 0 -> "0" [] n = 1 -> "1" [] n = 2 -> "2" [] n = 3 -> "3" [] n = 4 -> "4"
      [] n = 5 -> "5" [] n = 6 -> "6" [] n = 7 -> "7" [] n = 8 -> "8" [] n = 9 -> "9"

\* %m and %d: two digits, zero-padded
Pad2_Unpadded(n) ==
    IF n < 10 THEN <<DigitChar(n)>> ELSE <<DigitChar(n \div 10), DigitChar(n % 10)>>
Pad2(n) == <<DigitChar(n \div 10), DigitChar(n % 10)>>

\* %Y: the year with century
Pad4(n) == Pad2(n \div 100) \o Pad2(n % 100)

\* line 240: datetime.now().strftime('%Y%m%d')
Strftime(now) == Pad4(now.year) \o Pad2(now.month) \o Pad2(now.day)

\* line 241: f"{date_str} commit for transfer"
CommitMsg(date_str) ==
    date_str \o <<" ", "c", "o", "m", "m", "i", "t", " ", "f", "o", "r", " ",
                  "t", "r", "a", "n", "s", "f", "e", "r">>

\* lines 236-243
CheckSelection ==
    /\ pc = "selected"
    /\ IF repos_to_commit = <<>>
       THEN /\ lastmsg' = "no_selection"
            /\ pc' = "done"
            /\ UNCHANGED <<k, commit_msg>>
       ELSE /\ \E now \in Dates : commit_msg' = CommitMsg(Strftime(now))
            /\ lastmsg' = "committing"
            /\ pc' = "stage"
            /\ k' = 1
    /\ typed' = <<>>
    /\ declined' = {}
    /\ UNCHANGED <<locator, present, cli, cleaner, interactive, root_exists, scanner, repos_list, selected_repos, ignored_repos,
                   repos_to_commit, calls, outlog, invalids, entered, answered>>

\* line 245: the list the loop runs over
LoopRepos_AllDirty == Keys(repos_with_changes)
LoopRepos == repos_to_commit

\* where a `git add` result leads: the commit, the except clause, or out.
\* The line logged at 252 carries str(e), which names the failing command.
AfterStage_Always(res) ==
    CASE res = "ok" -> "commit" [] res = "nonzero" -> "commit" [] OTHER -> "raised"
AfterStage(res) ==
    CASE res = "ok" -> "commit" [] res = "nonzero" -> "except" [] OTHER -> "raised"

NextRepo == IF k < Len(LoopRepos) THEN "stage" ELSE "done"

\* line 247: subprocess.run(['git', 'add', '-A'], cwd=repo_path, check=True)
Stage ==
    /\ pc = "stage"
    /\ \E res \in ToolResults :
         /\ calls' = Append(calls, [cmd |-> "add", repo |-> LoopRepos[k], res |-> res,
                                    msg |-> <<>>])
         /\ CASE AfterStage(res) = "commit" ->
                    pc' = "commit" /\ UNCHANGED <<k, outlog>>
              [] AfterStage(res) = "except" ->
                    /\ outlog' = Append(outlog, [repo |-> LoopRepos[k], line |-> "failed",
                                                  detail |-> "add"])
                    /\ k' = k + 1
                    /\ pc' = NextRepo
              [] OTHER ->
                    pc' = "raised" /\ UNCHANGED <<k, outlog>>
    /\ UNCHANGED <<locator, present, cli, cleaner, interactive, root_exists, scanner, dialog, repos_to_commit, commit_msg>>

\* line 248: subprocess.run(['git', 'commit', ...], cwd=repo_path, check=True)
Commit ==
    /\ pc = "commit"
    /\ \E res \in ToolResults :
         /\ calls' = Append(calls, [cmd |-> "commit", repo |-> LoopRepos[k],
                                    res |-> res, msg |-> commit_msg])
         /\ IF res = "oserror"
            THEN pc' = "raised" /\ UNCHANGED <<k, outlog>>
            ELSE /\ outlog' = Append(outlog,
                        IF res = "ok"
                        THEN [repo |-> LoopRepos[k], line |-> "committed",
                              detail |-> "none"]
                        ELSE [repo |-> LoopRepos[k], line |-> "failed",
                              detail |-> "commit"])
                 /\ k' = k + 1
                 /\ pc' = NextRepo
    /\ UNCHANGED <<locator, present, cli, cleaner, interactive, root_exists, scanner, dialog, repos_to_commit, commit_msg>>

Next == Classify \/ ScanReturn \/ Prompt \/ Confirm \/ CheckSelection \/ Stage \/ Commit

Spec == Init /\ [][Next]_vars

\* ---------------------------------------------------- repository locator
\* A directory tree: entry i lies in directory t[i].parent (0 is the root, an
\* existing directory), is a directory or a regular file, and has a name.
\* Entries are numbered in the order in which the directory listing returns
\* them.
Root == 0
Names == {".git", "src"}

WellFormedTree(t) ==
    /\ \A i \in DOMAIN t :
          /\ t[i].parent < i
          /\ t[i].parent # Root => t[t[i].parent].kind = "dir"
    /\ \A i, j \in DOMAIN t :
          (i # j /\ t[i].parent = t[j].parent) => t[i].name # t[j].name

Trees ==
    UNION { {t \in [1..n -> [parent : 0..(n - 1), kind : {"dir", "file"}, name : Names]] :
                WellFormedTree(t)} : n \in 0..MaxNodes }

Entries(t, d) == {i \in DOMAIN t : t[i].parent = d}

\* the subdirectories a recursive traversal descends into
SubDirs_NotBelowRepo(t, d) ==
    IF \E i \in Entries(t, d) : t[i].name = ".git"
    THEN {}
    ELSE {i \in Entries(t, d) : t[i].kind = "dir"}

SubDirs(t, d) == {i \in Entries(t, d) : t[i].kind = "dir"}

\* file_tools.py line 154: the last component of the pattern '**/.git' is
\* matched by existence of the path d/.git, whatever kind of entry it is
GlobMatches(t, d) == \E i \in Entries(t, d) : t[i].name = ".git"

\* backup_utils.py line 14: `".git" in dirs`, the subdirectories of d
WalkMatches(t, d) == \E i \in SubDirs(t, d) : t[i].name = ".git"

\* one directory of the '**' part of root.glob('**/.git'), with
\* repo_path = git_dir.parent (line 155) for the match below it
GlobVisit ==
    /\ glob_stack # <<>>
    /\ LET d == Head(glob_stack)
       IN  /\ glob_out' = IF GlobMatches(tree, d) THEN Append(glob_out, d) ELSE glob_out
           /\ glob_stack' = SortedSeq(SubDirs(tree, d)) \o Tail(glob_stack)
    /\ UNCHANGED <<commit_all, cleaner, present, cli, tree, walk_stack, walk_out>>

\* one iteration of `for root, dirs, files in os.walk(backup_dir)`
WalkVisit ==
    /\ walk_stack # <<>>
    /\ LET d == Head(walk_stack)
       IN  /\ walk_out' = IF WalkMatches(tree, d) THEN Append(walk_out, d) ELSE walk_out
           /\ walk_stack' = SortedSeq(SubDirs(tree, d)) \o Tail(walk_stack)
    /\ UNCHANGED <<commit_all, cleaner, present, cli, tree, glob_stack, glob_out>>

InitLocate ==
    /\ CommitAllIdle
    /\ CleanerIdle
    /\ PresentIdle
    /\ MainIdle
    /\ tree \in Trees
    /\ glob_stack = <<Root>>
    /\ glob_out = <<>>
    /\ walk_stack = <<Root>>
    /\ walk_out = <<>>

NextLocate == GlobVisit \/ WalkVisit

SpecLocate == InitLocate /\ [][NextLocate]_vars


\* ------------------------------------------- _select_repos: Present step
\* git status --porcelain writes one record per changed path: two status
\* letters, a blank, the path; every record is ended by a line terminator
Records ==
    { <<" ", "M", " ", "a">>, <<"?", "?", " ", "b">>, <<"M", " ", " ", "c">> }

RECURSIVE Porcelain(_)
Porcelain(recs) ==
    IF recs = <<>> THEN <<>>
    ELSE Head(recs) \o <<"\n">> \o Porcelain(Tail(recs))

\* the values of repos_with_changes: the stdout of a repository with changes
DirtyTexts ==
    {Porcelain(recs) : recs \in UNION {[1..n -> Records] : n \in 1..MaxRecords}}

\* str.split('\n'): the pieces between the separators, empty pieces included
RECURSIVE SplitOn(_, _)
SplitOn(s, sep) ==
    IF \E i \in 1..Len(s) : s[i] = sep
    THEN LET i == SetMin({j \in 1..Len(s) : s[j] = sep})
         IN  <<SubSeq(s, 1, i - 1)>> \o SplitOn(SubSeq(s, i + 1, Len(s)), sep)
    ELSE <<s>>

\* lines 187-189
StatusPreview(text) ==
    [line   |-> Strip(SplitOn(text, "\n")[1]),
     marker |-> Len(SplitOn(text, "\n")) > 1]

\* one iteration of `for idx, repo in enumerate(repos_list, 1)` (186-190)
Present ==
    /\ pidx <= Len(texts)
    /\ previews' = Append(previews,
                      [idx    |-> pidx,
                       line   |-> StatusPreview(texts[pidx]).line,
                       marker |-> StatusPreview(texts[pidx]).marker])
    /\ pidx' = pidx + 1
    /\ UNCHANGED <<commit_all, cleaner, locator, cli, texts>>

InitPresent ==
    /\ CommitAllIdle
    /\ CleanerIdle
    /\ LocatorIdle
    /\ MainIdle
    /\ texts \in UNION {[1..n -> DirtyTexts] : n \in 1..MaxShown}
    /\ pidx = 1
    /\ previews = <<>>

NextPresent == Present

SpecPresent == InitPresent /\ [][NextPresent]_vars

\* ------------------------------------------------------------------ main
DefaultDepth == 2
Depths == {0, DefaultDepth, 5}

\* the namespace returned by parser.parse_args() (lines 280-323)
ArgSets ==
    [tree : BOOLEAN, depth : Depths, find_ignored : BOOLEAN,
     delete_ignored : BOOLEAN, find_uncommitted : BOOLEAN, commit_all : BOOLEAN,
     no_interactive : BOOLEAN, fix_filemode : BOOLEAN]

\* any(vars(args).values()): a flag that is set, or a depth other than 0
AnyTruthy(a) ==
    \/ a.tree
    \/ a.depth # 0
    \/ a.find_ignored
    \/ a.delete_ignored
    \/ a.find_uncommitted
    \/ a.commit_all
    \/ a.no_interactive
    \/ a.fix_filemode

\* the `if args.<flag>:` statements of lines 330-346, in order, with the call
\* each one makes
Operations(a) ==
    << [flag |-> "tree",
        call |-> [op |-> "list_subdirs", max_depth |-> a.depth]],
       [flag |-> "find_ignored",
        call |-> [op |-> "find_ignored_dirs", dry_run |-> TRUE]],
       [flag |-> "delete_ignored",
        call |-> [op |-> "find_ignored_dirs", dry_run |-> FALSE]],
       [flag |-> "find_uncommitted",
        call |-> [op |-> "find_uncommitted_changes"]],
       [flag |-> "fix_filemode",
        call |-> [op |-> "fix_filemode"]],
       [flag |-> "commit_all",
        call |-> [op |-> "commit_all_changes", interactive |-> ~a.no_interactive]] >>

\* lines 326-328
CheckArgs ==
    /\ mpc = "parsed"
    /\ IF ~AnyTruthy(args)
       THEN /\ helped' = TRUE
            /\ mpc' = "returned"
            /\ UNCHANGED step
       ELSE /\ mpc' = "dispatch"
            /\ step' = 1
            /\ UNCHANGED helped
    /\ UNCHANGED <<commit_all, cleaner, locator, present, args, ran>>

\* one of the `if args.<flag>:` statements
Dispatch ==
    /\ mpc = "dispatch"
    /\ LET stmt == Operations(args)[step]
       IN  ran' = IF args[stmt.flag] THEN Append(ran, stmt.call) ELSE ran
    /\ IF step = Len(Operations(args))
       THEN mpc' = "returned" /\ UNCHANGED step
       ELSE step' = step + 1 /\ UNCHANGED mpc
    /\ UNCHANGED <<commit_all, cleaner, locator, present, args, helped>>

InitMain ==
    /\ CommitAllIdle
    /\ CleanerIdle
    /\ LocatorIdle
    /\ PresentIdle
    /\ args \in ArgSets
    /\ mpc = "parsed"
    /\ step = 0
    /\ helped = FALSE
    /\ ran = <<>>

NextMain == CheckArgs \/ Dispatch

SpecMain == InitMain /\ [][NextMain]_vars

\* ------------------------------------------------------ find_ignored_dirs
\* two of the names of COMMON_IGNORED_DIRS (lines 24-41) and one other name
IgnoredNames == {"node_modules", "build"}
EntryNames == IgnoredNames \cup {"src"}

IgnoredTrees ==
    UNION { {t \in [1..n -> [parent : 0..(n - 1), kind : {"dir", "file"}, name : EntryNames]] :
                WellFormedTree(t)} : n \in 0..MaxNodes }

\* the entries below directory d, at any depth
RECURSIVE IsBelow(_, _, _)
IsBelow(t, i, d) ==
    /\ i # Root
    /\ \/ t[i].parent = d
       \/ IsBelow(t, t[i].parent, d)

Below(t, d) == {i \in DOMAIN t : IsBelow(t, i, d)}

\* root.glob(f'**/{ignored_dir}'): every entry of that name, a directory
\* before the entries below it
GlobName(t, nm) == SortedSeq({i \in DOMAIN t : t[i].name = nm})

\* lines 126-127: the iteration order of the set COMMON_IGNORED_DIRS is not
\* fixed
FoundDirs(t) ==
    { GlobName(t, "node_modules") \o GlobName(t, "build"),
      GlobName(t, "build") \o GlobName(t, "node_modules") }

\* _get_dir_size (line 68) stats every entry below the directory; Path.is_file
\* re-raises a PermissionError, which an entry inside a directory that can be
\* listed but not searched produces
StatOutcomes(t, found) ==
    IF \E i \in 1..Len(found) : Below(t, found[i]) # {}
    THEN {"ok", "raises"}
    ELSE {"ok"}

\* what a failed shutil.rmtree may already have removed below the directory:
\* rmtree removes the contents of a subdirectory before the subdirectory
Removable(t, exist, d) ==
    {D \in SUBSET (Below(t, d) \cap exist) : \A x \in D : (Below(t, x) \cap exist) \subseteq D}

\* shutil.rmtree(dir_path): the results and the entries left afterwards
RmtreeOutcomes(t, exist, d) ==
    IF d \notin exist \/ t[d].kind = "file"
    THEN {[res |-> "failed", left |-> exist]}
    ELSE {[res |-> "deleted", left |-> exist \ ({d} \cup Below(t, d))]}
            \cup {[res |-> "failed", left |-> exist \ D] : D \in Removable(t, exist, d)}

\* lines 126-127
Find ==
    /\ ipc = "find"
    /\ found_dirs' \in FoundDirs(itree)
    /\ ipc' = "measure"
    /\ UNCHANGED <<commit_all, locator, present, cli, dry_run, itree, fs, attempts>>

\* lines 129-138: the sizes, the listing and the test of dry_run
Measure ==
    /\ ipc = "measure"
    /\ \E outcome \in StatOutcomes(itree, found_dirs) :
          ipc' = IF outcome = "raises" THEN "raised"
                 ELSE IF ~dry_run THEN "delete"
                 ELSE "returned"
    /\ UNCHANGED <<commit_all, locator, present, cli, dry_run, itree, fs, found_dirs,
                   attempts>>

\* one iteration of `for dir_path in found_dirs` (lines 140-145); past the
\* last one the function returns
Delete ==
    /\ ipc = "delete"
    /\ IF Len(attempts) < Len(found_dirs)
       THEN \E out \in RmtreeOutcomes(itree, fs, found_dirs[Len(attempts) + 1]) :
               /\ attempts' = Append(attempts,
                                 [path |-> found_dirs[Len(attempts) + 1], res |-> out.res])
               /\ fs' = out.left
               /\ UNCHANGED ipc
       ELSE /\ ipc' = "returned"
            /\ UNCHANGED <<attempts, fs>>
    /\ UNCHANGED <<commit_all, locator, present, cli, dry_run, itree, found_dirs>>

InitIgnored ==
    /\ CommitAllIdle
    /\ LocatorIdle
    /\ PresentIdle
    /\ MainIdle
    /\ dry_run \in BOOLEAN
    /\ itree \in IgnoredTrees
    /\ fs = DOMAIN itree
    /\ found_dirs = <<>>
    /\ ipc = "find"
    /\ attempts = <<>>

NextIgnored == Find \/ Measure \/ Delete

SpecIgnored == InitIgnored /\ [][NextIgnored]_vars


\* ================================================================== claims
\* The decimal meaning of the words the operator can type, read off the words
\* themselves (independently of IsInt/IntOf).
TokenValue(t) ==
    CASE t = <<"1">> -> 1 [] t = <<"2">> -> 2 [] t = <<"3">> -> 3
      [] t = <<"5">> -> 5 [] t = <<"0">> -> 0 [] t = <<"-", "1">> -> 0 - 1

TypedIndices == {TokenValue(typed[i]) : i \in 1..Len(typed)}

DirtyCount == Len(repos_with_changes)
DirtyKeys == {repos_with_changes[i].repo : i \in 1..DirtyCount}
KeptPositions == {j \in 1..DirtyCount : j \notin TypedIndices}

\* s lists exactly the dirty repositories whose 1-based index was not typed,
\* in presentation order
IsComplementOfTyped(s) ==
    /\ Len(s) = Cardinality(KeptPositions)
    /\ {s[i] : i \in 1..Len(s)} = {repos_with_changes[j].repo : j \in KeptPositions}
    /\ \A i, j \in 1..Len(s) : i < j => s[i] < s[j]

ExecutorStarted == k >= 1
ExecutorEnded == ExecutorStarted /\ pc \in {"done", "raised"}
AddCalls(r) == {i \in 1..Len(calls) : calls[i].cmd = "add" /\ calls[i].repo = r}

\* C1: a stage or commit failure in one repository never aborts the batch:
\* when the executor has ended, every repository of the InclusionSet has been
\* attempted (staged) exactly once.
C1_EveryRepoAttemptedOnce ==
    ExecutorEnded =>
        \A i \in 1..Len(repos_to_commit) : Cardinality(AddCalls(repos_to_commit[i])) = 1

\* C2: no git add / git commit is ever issued for a repository outside the
\* InclusionSet (excluded by the operator, or not dirty).
C2_OnlyIncludedTouched ==
    \A i \in 1..Len(calls) :
        /\ \E j \in 1..Len(repos_to_commit) : repos_to_commit[j] = calls[i].repo
        /\ calls[i].repo \in DirtyKeys

C2_Witness ==
    /\ pc = "done"
    /\ DirtyCount = 3
    /\ Len(repos_to_commit) = 1
    /\ Len(calls) = 2
    /\ entered = "ints"

\* C3: within a repository the commit is invoked only directly after that
\* repository's successful stage; after a failed stage no commit is attempted.
C3_CommitOnlyAfterStageOk ==
    /\ \A i \in 1..Len(calls) :
         calls[i].cmd = "commit" =>
            /\ i > 1
            /\ calls[i - 1].cmd = "add"
            /\ calls[i - 1].repo = calls[i].repo
            /\ calls[i - 1].res = "ok"
    /\ \A i \in 1..Len(calls) :
         (calls[i].cmd = "add" /\ calls[i].res # "ok") =>
            \A j \in 1..Len(calls) :
                ~(calls[j].cmd = "commit" /\ calls[j].repo = calls[i].repo)

C3_Witness ==
    /\ Len(calls) = 3
    /\ calls[1].cmd = "add" /\ calls[1].res = "nonzero"
    /\ calls[2].cmd = "add" /\ calls[2].res = "ok"
    /\ calls[3].cmd = "commit" /\ calls[3].repo = calls[2].repo

\* C4: a line of integers makes the candidate the dirty set minus the typed
\* 1-based indices (indices outside 1..N ignored), and 'y' returns it.
C4_CandidateIsComplement ==
    /\ pc = "confirm" =>
          /\ IsComplementOfTyped(selected_repos)
          /\ ignored_repos = DirtyKeys \ {selected_repos[i] : i \in 1..Len(selected_repos)}
    /\ (pc = "prompt" /\ entered = "ints" /\ answered = "nothing") =>
          /\ IsComplementOfTyped(selected_repos)
          /\ ignored_repos = DirtyKeys
    /\ (pc = "selected" /\ entered = "ints" /\ answered = "y") =>
          IsComplementOfTyped(repos_to_commit)

C4_Witness ==
    /\ pc = "selected"
    /\ answered = "y"
    /\ DirtyCount = 3
    /\ typed = << <<"1">>, <<"3">> >>
    /\ repos_to_commit = <<repos_with_changes[2].repo>>

\* C5 as stated: every line of integers, whatever it excludes, leads to the
\* confirmation step.
C5_Original ==
    (entered = "ints" /\ answered = "nothing") => pc = "confirm"

\* C5 amended: a line of integers leads to the confirmation step when it leaves
\* at least one repository included; a line that excludes every dirty
\* repository returns to the prompt with nothing displayed.
C5_ConfirmUnlessAllExcluded ==
    (entered = "ints" /\ answered = "nothing") =>
        IF KeptPositions # {}
        THEN pc = "confirm" /\ lastmsg = "confirming"
        ELSE pc = "prompt" /\ lastmsg # "confirming" /\ repos_to_commit = <<>>

C5_Witness ==
    /\ pc = "confirm"
    /\ entered = "ints"
    /\ typed = << <<"2">> >>
    /\ ignored_repos # {}
    /\ lastmsg = "confirming"

\* C6: the line 'all' returns the empty InclusionSet at once, without a
\* confirmation, and nothing is staged or committed in that run.
C6_AllSkipsEverything ==
    entered = "all" =>
        /\ pc \in {"selected", "done"}
        /\ answered = "nothing"
        /\ repos_to_commit = <<>>
        /\ calls = <<>>

C6_Witness ==
    /\ entered = "all"
    /\ pc = "done"
    /\ lastmsg = "no_selection"
    /\ DirtyCount >= 2

\* C7: an empty line or the line 'none' returns the whole dirty set in
\* presentation order, without a confirmation.
C7_NoneSkipsNothing ==
    entered \in {"empty", "none"} =>
        /\ pc \notin {"prompt", "confirm"}
        /\ answered = "nothing"
        /\ repos_to_commit = [i \in 1..DirtyCount |-> repos_with_changes[i].repo]

C7_Witness ==
    /\ entered = "none"
    /\ pc = "selected"
    /\ Len(repos_to_commit) = 3

\* C8 as stated: any confirmation answer other than 'y' returns to the prompt
\* without a result.
C8_Original ==
    answered \in {"Y", "other"} => (pc = "prompt" /\ repos_to_commit = <<>>)

\* C8 amended: any confirmation answer other than 'y' or 'Y' returns to the
\* prompt without a result, and a later candidate depends on the later line
\* only, not on the declined one.
C8_DeclineStartsAfresh ==
    /\ answered = "other" =>
          (pc = "prompt" /\ repos_to_commit = <<>> /\ lastmsg = "retry")
    /\ pc = "confirm" => IsComplementOfTyped(selected_repos)
    /\ (pc = "selected" /\ entered = "ints") => IsComplementOfTyped(repos_to_commit)

C8_Witness ==
    /\ pc = "confirm"
    /\ declined # {}
    /\ ignored_repos # {}
    /\ declined \cap ignored_repos = {}
    /\ declined \subseteq {selected_repos[i] : i \in 1..Len(selected_repos)}

\* C9 as stated: a line with a non-integer word, unless the whole line is
\* 'all', 'none' or empty, is rejected with an error message and a re-prompt.
C9_Original ==
    entered \in {"malformed", "uppercase_all"} =>
        (pc = "prompt" /\ lastmsg = "invalid")

\* C9 amended: a line with a non-integer word, unless the line trimmed and
\* lower-cased is 'all', 'none' or empty, is rejected with an error message and
\* a re-prompt that changes nothing, however many lines were rejected before.
C9_MalformedRejected ==
    [][(pc = "prompt" /\ entered' = "malformed") =>
          /\ pc' = "prompt"
          /\ lastmsg' = "invalid"
          /\ UNCHANGED <<repos_with_changes, repos_list, selected_repos,
                         ignored_repos, repos_to_commit, calls>>]_vars

C9_Witness ==
    /\ pc = "prompt"
    /\ entered = "malformed"
    /\ lastmsg = "invalid"
    /\ invalids = MaxInvalid
    /\ ignored_repos # {}

\* C10: the InclusionSet handed to the executor is a duplicate-free subset of
\* the scan's dirty repositories; in non-interactive mode it is all of them.
C10_InclusionSubset ==
    /\ \A i \in 1..Len(repos_to_commit) : repos_to_commit[i] \in DirtyKeys
    /\ \A i, j \in 1..Len(repos_to_commit) :
          repos_to_commit[i] = repos_to_commit[j] => i = j
    /\ (~interactive /\ (pc \in {"selected", "stage", "commit"} \/ ExecutorStarted)) =>
          repos_to_commit = [i \in 1..DirtyCount |-> repos_with_changes[i].repo]

C10_Witness ==
    /\ interactive
    /\ pc = "selected"
    /\ declined # {}
    /\ DirtyCount = 3
    /\ Len(repos_to_commit) = 2


ScanAborted == pc = "raised" /\ ~ExecutorStarted

\* C11: a failed status query never aborts the scan: when the scan has ended,
\* every located repository has been classified.
C11_ScanClassifiesAll ==
    ScanAborted => Len(queried) = Len(git_dirs)

\* the text is empty once surrounding whitespace is trimmed
IsBlankText(t) == \A i \in 1..Len(t) : t[i] = " " \/ t[i] = "\n" \/ t[i] = "\t"

C13_FailureReported ==
    \A i \in 1..Len(queried) :
        queried[i].kind # "ok" =>
            \/ \E n \in 1..Len(scanlog) :
                  scanlog[n] = [repo |-> git_dirs[i], line |-> "error"]
            \/ (pc = "raised" /\ i = Len(queried))


TransferWords ==
    <<"c", "o", "m", "m", "i", "t", " ", "f", "o", "r", " ",
      "t", "r", "a", "n", "s", "f", "e", "r">>

\* the dates of Dates written as YYYYMMDD
DateStrings ==
    { <<"2", "0", "2", "5", "0", "3", "0", "7">>,
      <<"2", "0", "2", "5", "1", "2", "3", "1">>,
      <<"2", "0", "2", "6", "1", "1", "0", "1">> }

CommitCallsUse(m) ==
    \A i \in 1..Len(calls) : calls[i].cmd = "commit" => calls[i].msg = m

\* C14 as stated: one message per run, of the form <YYYYMMDD>commit for
\* transfer with nothing between the date and the word "commit".
C14_Original ==
    ExecutorStarted =>
        /\ \E ds \in DateStrings : commit_msg = ds \o TransferWords
        /\ CommitCallsUse(commit_msg)

\* C14 amended: one message per run, the same for every repository committed,
\* of the form <YYYYMMDD> commit for transfer, with a single space between the
\* date and the word "commit".
C14_MessageWithSpace ==
    ExecutorStarted =>
        /\ \E ds \in DateStrings : commit_msg = ds \o <<" ">> \o TransferWords
        /\ CommitCallsUse(commit_msg)

C14_Witness ==
    /\ pc = "done"
    /\ commit_msg = <<"2", "0", "2", "5", "0", "3", "0", "7", " ">> \o TransferWords
    /\ Len(calls) = 4
    /\ calls[2].cmd = "commit" /\ calls[2].msg = commit_msg
    /\ calls[4].cmd = "commit" /\ calls[4].msg = commit_msg
    /\ calls[2].repo # calls[4].repo

OutcomeLines(r) == {i \in 1..Len(outlog) : outlog[i].repo = r}
Included(r) == \E j \in 1..Len(repos_to_commit) : repos_to_commit[j] = r
CallResult(r, c) ==
    {calls[i].res : i \in {i \in 1..Len(calls) : calls[i].repo = r /\ calls[i].cmd = c}}

\* the outcome the summary should give for repository r
ExpectedOutcome(r) ==
    IF ~Included(r) THEN "Skipped"
    ELSE IF CallResult(r, "add") # {"ok"} THEN "StageFailed"
    ELSE IF CallResult(r, "commit") # {"ok"} THEN "CommitFailed"
    ELSE "Committed"

\* the outcome a logged line gives
ReportedOutcome(l) ==
    IF l.line = "committed" THEN "Committed"
    ELSE IF l.detail = "add" THEN "StageFailed" ELSE "CommitFailed"

\* C15: once the executor has finished, every dirty repository appears with
\* exactly one outcome, the one its stage and commit results call for.
C15_SummaryForEveryDirtyRepo ==
    (pc = "done" /\ ExecutorStarted) =>
        \A r \in DirtyKeys :
            /\ Cardinality(OutcomeLines(r)) = 1
            /\ \A i \in OutcomeLines(r) : ReportedOutcome(outlog[i]) = ExpectedOutcome(r)


RunEnded == pc \in {"done", "raised"}

\* C16: the run fails hard exactly when the scan root does not exist or is
\* inaccessible, and then before any classification, stage or commit; every
\* other run ends successfully.
C16_HardFailureIffNoRoot ==
    RunEnded =>
        /\ pc = "raised" <=> ~root_exists
        /\ ~root_exists => (calls = <<>> /\ scanlog = <<>>)

\* 1-based index under which the dialog presents repository r
DialogIndex(r) == CHOOSE j \in 1..DirtyCount : repos_with_changes[j].repo = r

\* C17: the executor touches the included repositories in the order of their
\* dialog indices.
C17_DialogOrder ==
    /\ \A i, j \in 1..Len(calls) :
          i < j => DialogIndex(calls[i].repo) <= DialogIndex(calls[j].repo)
    /\ \A i, j \in 1..Len(outlog) :
          i < j => DialogIndex(outlog[i].repo) < DialogIndex(outlog[j].repo)

C17_Witness ==
    /\ interactive
    /\ pc = "done"
    /\ entered = "ints"
    /\ DirtyCount = 3
    /\ Len(calls) = 4
    /\ calls[1].repo = repos_with_changes[1].repo
    /\ calls[3].repo = repos_with_changes[3].repo
    /\ Len(outlog) = 2


Elems(s) == {s[i] : i \in DOMAIN s}
NoDuplicates(s) == \A i, j \in DOMAIN s : i # j => s[i] # s[j]
Dirs(t) == {Root} \cup {i \in DOMAIN t : t[i].kind = "dir"}
HasGitDirectory(t, d) ==
    \E i \in DOMAIN t : t[i].parent = d /\ t[i].name = ".git" /\ t[i].kind = "dir"
HasGitEntry(t, d) ==
    \E i \in DOMAIN t : t[i].parent = d /\ t[i].name = ".git"

\* C18 as stated: the locator of commit-all reports exactly the directories
\* that directly contain a metadata directory named .git, each once.
C18_Original ==
    glob_stack = <<>> =>
        /\ NoDuplicates(glob_out)
        /\ Elems(glob_out) = {d \in Dirs(tree) : HasGitDirectory(tree, d)}

\* C18: the locator of commit-all reports exactly the directories that
\* directly contain an entry named .git, be it a directory or a file, each
\* once and at any depth; the backup walk reports exactly the directories
\* that directly contain a directory named .git, each once and at any depth.
C18_LocatorReportsGitParents ==
    /\ glob_stack = <<>> =>
          /\ NoDuplicates(glob_out)
          /\ Elems(glob_out) = {d \in Dirs(tree) : HasGitEntry(tree, d)}
    /\ walk_stack = <<>> =>
          /\ NoDuplicates(walk_out)
          /\ Elems(walk_out) = {d \in Dirs(tree) : HasGitDirectory(tree, d)}

C18_Witness ==
    /\ glob_stack = <<>>
    /\ walk_stack = <<>>
    /\ \E outer, inner \in Elems(glob_out) :
          /\ inner # Root
          /\ tree[inner].name # ".git"
          /\ tree[inner].parent = outer
    /\ \E d \in Elems(glob_out) : d \notin Elems(walk_out)
    /\ walk_out # <<>>


FirstLine(text) ==
    IF \E i \in 1..Len(text) : text[i] = "\n"
    THEN SubSeq(text, 1, SetMin({j \in 1..Len(text) : text[j] = "\n"}) - 1)
    ELSE text
RecordCount(text) == Cardinality({i \in 1..Len(text) : text[i] = "\n"})

\* C19: every dirty repository is shown with its 1-based index and the first
\* line of its status text (compared up to surrounding blanks), followed by
\* the ellipsis marker exactly when the text holds more than one record.
C19_PreviewMarksMoreRecords ==
    \A p \in 1..Len(previews) :
        /\ previews[p].idx = p
        /\ Strip(previews[p].line) = Strip(FirstLine(texts[p]))
        /\ previews[p].marker <=> RecordCount(texts[p]) > 1

SubcommandFlags ==
    {"tree", "find_ignored", "delete_ignored", "find_uncommitted", "commit_all",
     "fix_filemode"}

NoSubcommand ==
    /\ \A f \in SubcommandFlags : ~args[f]
    /\ args.depth = DefaultDepth
    /\ ~args.no_interactive

\* C20: with no subcommand selected and every other option at its default,
\* main prints the usage text and returns without running any operation.
C20_NoSubcommandPrintsUsage ==
    (mpc = "returned" /\ NoSubcommand) => (helped /\ ran = <<>>)


DialogReturned == interactive /\ DirtyCount > 0 /\ pc \in {"selected", "done"}

\* C21 as stated: on a non-empty dirty set the only line that ends the dialog
\* with an empty InclusionSet is the line 'all'.
C21_Original ==
    (DialogReturned /\ repos_to_commit = <<>>) => entered = "all"

\* C21: a line of integers that excludes every dirty repository shows no
\* confirmation and returns to the prompt; a confirmation is only ever asked
\* for a non-empty candidate; every list returned after a confirmation is
\* non-empty; and the dialog returns the empty list on a non-empty dirty set
\* only for a line that reads 'all' once trimmed and lower-cased.
C21_NumericPathNeverEmpty ==
    /\ (entered = "ints" /\ answered = "nothing" /\ KeptPositions = {}) =>
          (pc = "prompt" /\ lastmsg # "confirming")
    /\ pc = "confirm" => selected_repos # <<>>
    /\ (DialogReturned /\ answered \in {"y", "Y"}) => repos_to_commit # <<>>
    /\ (DialogReturned /\ repos_to_commit = <<>>) =>
          (entered \in {"all", "uppercase_all"} /\ answered = "nothing")

C21_Witness ==
    /\ interactive
    /\ pc = "prompt"
    /\ DirtyCount = 2
    /\ entered = "ints"
    /\ typed = << <<"1">>, <<"2">> >>
    /\ ignored_repos = {repos_with_changes[1].repo, repos_with_changes[2].repo}
    /\ selected_repos = <<>>
    /\ repos_to_commit = <<>>
    /\ lastmsg # "confirming"


IgnoredEnded == ipc \in {"returned", "raised"}

\* C22: with dry_run=True the filesystem is never changed; with dry_run=False
\* a deletion is attempted exactly once for each found directory, in the order
\* found, whether or not earlier deletions failed.
C22_DryRunFrameAndAllAttempted ==
    /\ dry_run => (fs = DOMAIN itree /\ attempts = <<>>)
    /\ (~dry_run /\ IgnoredEnded) =>
          /\ Len(attempts) = Len(found_dirs)
          /\ \A i \in 1..Len(attempts) : attempts[i].path = found_dirs[i]

====
